---- MODULE Spec2Model ----
(***************************************************************************)
(* Admission protocol of CourtBooking: create_booking and cancel_booking   *)
(* (backend/backend/main.py) run by concurrent request handlers against    *)
(* one relational store (backend/backend/models.py).                       *)
(*                                                                         *)
(* Each handler is cut at the points where it talks to the store: a        *)
(* statement sees what was committed before it (READ COMMITTED), and a     *)
(* commit publishes all rows of the transaction at once and releases the   *)
(* transaction-scoped advisory lock.                                       *)
(***************************************************************************)
EXTENDS Integers, Sequences, FiniteSets, TLC

\* ---------------------------------------------------------------- bounds
\* request handlers that can be in flight at the same time
NumThreads == 2
\* handler calls (create_booking and cancel_booking) in one behaviour
MaxCalls == 4
\* timestamps are 0..MaxTime
MaxTime == 2
\* timestamps per calendar day
DayLen == 2
\* rows of pricing_rules, deleted ones included
MaxRules == 3

Threads == 1..NumThreads
Times == 0..MaxTime

\* ---------------------------------------------------------------- catalog
\* rows of courts, equipment_items, coaches and coach_availability; the
\* admission code only reads them.
UserEmails == {"alice", "bob"}
CourtIds == {1, 2, 3}
Courts ==
    [c \in {1, 2, 3} |->
        [enabled |-> (c # 3), name |-> <<"court", c>>,
         type |-> IF c = 3 THEN "outdoor" ELSE "indoor",
         base_hourly |-> IF c = 3 THEN 400 ELSE 600]]
Skus == {"racket"}
EquipmentItems == [s \in Skus |-> [total_quantity |-> 1, active |-> TRUE]]
CoachIds == {1}
Coaches ==
    [k \in CoachIds |->
        [active |-> TRUE, name |-> <<"Coach", k>>, hourly_rate |-> 300]]
CoachAvailability ==
    {[coach_id |-> 1, day_of_week |-> 0, start_time |-> 0, end_time |-> 1]}

NoCoach == 0
NoLock == <<>>

\* ---------------------------------------------------------------- state
VARIABLES
    users,         \* emails that have a row in users
    bookings,      \* table bookings; a Booking's id is its index
    allocations,   \* table booking_allocations, in insertion order
    waitlist,      \* table waitlist_entries; an entry's id is its index
                   \* (history: committed_at, the clock at its commit,
                   \* and behind, the Bookings that held the court)
    audit,         \* table audit_events (entry is history: the
                   \* waitlist entry a cancellation reported, else 0)
    held,          \* held[p]: the advisory lock p's transaction holds
    clock,         \* the store's clock: now() of the latest transaction
    pc,            \* pc[p]: where handler p is
    req,           \* req[p]: the request p is serving
    txn,           \* txn[p]: now() of p's transaction
    overlapping,   \* overlapping[p]: what p's conflict query returned
    degraded,      \* degraded[p]: p's lock statement failed
    bid,           \* bid[p]: the id of the Booking p works on
    resp,          \* resp[p]: what p's latest call returned
    lockPrimitive, \* whether the store has pg_advisory_xact_lock, that is,
                   \* whether it is PostgreSQL (else it is SQLite)
    workload,      \* which requests clients send
    serial,        \* whether clients wait for a call to end before the next
    nCalls,        \* handler calls started, of any endpoint
    price,         \* price[p]: what compute_price returned to handler p
    pricing_rules, \* table pricing_rules; a deleted rule leaves a hole
    quotes,        \* the latest answer of simulate_pricing, with the
                   \* arguments and the enabled rules it was computed from
    notified       \* the calls of notify_booking_change made so far

vars == <<users, bookings, allocations, waitlist, audit, held, clock, pc, req,
          txn, overlapping, degraded, bid, resp, lockPrimitive, workload,
          serial, nCalls, price, pricing_rules, quotes, notified>>

tables == <<users, bookings, allocations, waitlist, audit>>
env == <<lockPrimitive, workload, serial>>

\* what create_booking and cancel_booking never write
outside == <<pricing_rules, quotes, notified>>

\* ---------------------------------------------------------------- requests
\* BookingRequest: any two timestamps (no validator orders them), any court
\* id, a list of equipment lines, an optional coach. tzinfo is the UTC
\* offset the client wrote in both timestamps, "" when it wrote none.
Line(s, q) == [sku |-> s, quantity |-> q]

BookingRequest(emails, intervals, courts, lists, coaches) ==
    {[user_email |-> u, start_ts |-> i[1], end_ts |-> i[2], tzinfo |-> "",
      court_id |-> c, equipment |-> e, coach_id |-> k] :
        u \in emails, i \in intervals, c \in courts, e \in lists, k \in coaches}

\* the same requests with timestamps written with the offset of UTC
Aware(requests) == {[r EXCEPT !.tzinfo = "+00:00"] : r \in requests}

NoRequest ==
    [user_email |-> "", start_ts |-> 0, end_ts |-> 0, tzinfo |-> "",
     court_id |-> 0, equipment |-> <<>>, coach_id |-> NoCoach]

NoResponse == [status |-> "none", id |-> 0, detail |-> <<>>]

\* ---------------------------------------------------------------- helpers
\* datetime.isoformat() of a naive timestamp
isoformat(t) == <<"T", t>>

\* datetime.isoformat() of the timestamp of a request: the offset is
\* written after the time when the datetime has one
isoformatAware(t, tzinfo) ==
    IF tzinfo = "" THEN isoformat(t) ELSE <<"T", t, tzinfo>>

\* slot_hash: the f-string of both timestamps and the court id
SlotHash(start_ts, end_ts, resource_id) ==
    <<isoformat(start_ts), isoformat(end_ts), resource_id>>

\* line 439: the slot_hash of a request, from the datetimes as parsed
RequestSlotHash(r) ==
    <<isoformatAware(r.start_ts, r.tzinfo), isoformatAware(r.end_ts, r.tzinfo),
      r.court_id>>

\* lock_id: the first 32 bits of the md5 of slot_hash; equal slot hashes give
\* equal lock ids, and the few slot hashes of one behaviour do not collide
LockId(slot_hash) == <<"lock", slot_hash>>

\* strftime('%A') and strftime('%H:%M') of a timestamp
DayOfWeek(t) == t \div DayLen
TimeOfDay(t) == t % DayLen

BookingIds == 1..Len(bookings)

\* booking.allocations: the Booking's rows of booking_allocations
AllocationsOf(b) == SelectSeq(allocations, LAMBDA a : a.booking_id = b)

RECURSIVE SumQuantity(_)
SumQuantity(rows) ==
    IF rows = <<>> THEN 0 ELSE Head(rows).quantity + SumQuantity(Tail(rows))

\* the query of confirmed Bookings whose interval overlaps the request's
OverlappingAnyStatus(r) ==
    {b \in BookingIds :
        /\ bookings[b].start_ts < r.end_ts
        /\ bookings[b].end_ts > r.start_ts}

OverlappingIdentical(r) ==
    {b \in BookingIds :
        /\ bookings[b].start_ts = r.start_ts
        /\ bookings[b].end_ts = r.end_ts
        /\ bookings[b].status = "confirmed"}

OverlappingQuery(r) ==
    {b \in BookingIds :
        /\ bookings[b].start_ts < r.end_ts
        /\ bookings[b].end_ts > r.start_ts
        /\ bookings[b].status = "confirmed"}

\* some Booking of the query result holds the requested court
CourtConflictAnyCourt(r, found) ==
    \E b \in found : \E i \in 1..Len(AllocationsOf(b)) :
        AllocationsOf(b)[i].resource_type = "court"

CourtConflict(r, found) ==
    \E b \in found : \E i \in 1..Len(AllocationsOf(b)) :
        /\ AllocationsOf(b)[i].resource_type = "court"
        /\ AllocationsOf(b)[i].resource_id = r.court_id

\* booked_qty: the quantity of a SKU held by the Bookings of the query result
RECURSIVE BookedQty(_, _)
BookedQty(sku, found) ==
    IF found = {} THEN 0
    ELSE LET b == CHOOSE x \in found : TRUE
         IN  SumQuantity(SelectSeq(AllocationsOf(b), LAMBDA a :
                 a.resource_type = "equipment" /\ a.resource_id = sku))
             + BookedQty(sku, found \ {b})

AvailableQtyUnbooked(sku, found) == EquipmentItems[sku].total_quantity

AvailableQty(sku, found) ==
    EquipmentItems[sku].total_quantity - BookedQty(sku, found)

\* one equipment line fails validation
LineFails(e, found) ==
    \/ e.sku \notin DOMAIN EquipmentItems
    \/ ~EquipmentItems[e.sku].active
    \/ e.quantity > AvailableQty(e.sku, found)

\* the first equipment line that fails validation, 0 when none does
FirstBadLine(r, found) ==
    LET bad == {i \in 1..Len(r.equipment) : LineFails(r.equipment[i], found)}
    IN  IF bad = {} THEN 0 ELSE CHOOSE i \in bad : \A j \in bad : i <= j

CoachConflict(r, found) ==
    \E b \in found : \E i \in 1..Len(AllocationsOf(b)) :
        /\ AllocationsOf(b)[i].resource_type = "coach"
        /\ AllocationsOf(b)[i].resource_id = r.coach_id

\* why the coach of the request is refused, "" when it is not
CoachError(r, found) ==
    IF r.coach_id = NoCoach THEN ""
    ELSE IF r.coach_id \notin DOMAIN Coaches \/ ~Coaches[r.coach_id].active
         THEN "Coach not available"
    ELSE IF CoachConflict(r, found)
         THEN "Coach already booked for this time slot"
    ELSE LET rows == {a \in CoachAvailability :
                         /\ a.coach_id = r.coach_id
                         /\ a.day_of_week = DayOfWeek(r.start_ts)}
         IN  IF rows = {} THEN "Coach not available on day"
             ELSE IF \E a \in rows :
                         \/ TimeOfDay(r.start_ts) < a.start_time
                         \/ TimeOfDay(r.end_ts) > a.end_time
                  THEN "Coach availability"
             ELSE ""

\* the rows the confirm step adds to booking_allocations, in order
RECURSIVE EquipmentAllocations(_, _)
EquipmentAllocations(b, lines) ==
    IF lines = <<>> THEN <<>>
    ELSE <<[booking_id |-> b, resource_type |-> "equipment",
            resource_id |-> Head(lines).sku, quantity |-> Head(lines).quantity]>>
         \o EquipmentAllocations(b, Tail(lines))

NewAllocations(b, r) ==
    <<[booking_id |-> b, resource_type |-> "court",
       resource_id |-> r.court_id, quantity |-> 1]>>
    \o EquipmentAllocations(b, r.equipment)
    \o (IF r.coach_id # NoCoach
        THEN <<[booking_id |-> b, resource_type |-> "coach",
                resource_id |-> r.coach_id, quantity |-> 1]>>
        ELSE <<>>)

\* booking_allocations.resource_id is declared Integer and is given the SKU
\* string of an equipment line: PostgreSQL refuses the row when the
\* transaction is flushed, SQLite stores the string
DataError(r) == lockPrimitive /\ r.equipment # <<>>

\* ---------------------------------------------------------------- pricing
\* Amounts are whole numbers: with the rates and rule values of this model
\* (600, 400, 300; 20%, 25%, +100, +60, +40) every product of compute_price is exact,
\* as the floats of the code are on the same values.

\* rule_json.match: given is the set of keys the dict has
Match(given, days, start, end) ==
    [given |-> given, days |-> days, start |-> start, end |-> end]

RuleJson(match, applies_to, type, value, stack_behavior) ==
    [match |-> match, applies_to |-> applies_to,
     modifier |-> [type |-> type, value |-> value],
     stack_behavior |-> stack_behavior]

FlatJson ==
    RuleJson(Match({}, {}, 0, 0), "", "absolute", 100, "additive")

\* the rules of seed.py: the peak window is the last hour of a day here, and
\* the indoor rule has an empty match
PeakJson ==
    RuleJson(Match({"days", "start", "end"}, 0..MaxTime, DayLen - 1, DayLen),
             "", "percentage", 20, "additive")
IndoorJson ==
    RuleJson(Match({}, {}, 0, 0), "indoor", "percentage", 25, "additive")

PricingRule(name, enabled, priority, rule_json) ==
    [live |-> TRUE, name |-> name, enabled |-> enabled,
     priority |-> priority, rule_json |-> rule_json]

SeedRules ==
    <<PricingRule("Peak", TRUE, 10, PeakJson),
      PricingRule("Indoor", TRUE, 8, IndoorJson)>>

\* rule_applies: an empty match applies before anything else is looked at
rule_appliesSpan(rule_json, target, start_ts, end_ts) ==
    LET match == rule_json.match
    IN  IF match.given = {} THEN TRUE
        ELSE IF /\ "days" \in match.given
                /\ match.days # {}
                /\ DayOfWeek(start_ts) \notin match.days
             THEN FALSE
        ELSE IF /\ {"start", "end"} \subseteq match.given
                /\ ~\E t \in start_ts..(end_ts - 1) :
                       /\ match.start <= TimeOfDay(t)
                       /\ TimeOfDay(t) < match.end
             THEN FALSE
        ELSE IF /\ rule_json.applies_to \notin {"", "all"}
                /\ rule_json.applies_to # target.type
             THEN FALSE
        ELSE TRUE

rule_applies(rule_json, target, start_ts, end_ts) ==
    LET match == rule_json.match
    IN  IF match.given = {} THEN TRUE
        ELSE IF /\ "days" \in match.given
                /\ match.days # {}
                /\ DayOfWeek(start_ts) \notin match.days
             THEN FALSE
        ELSE IF /\ {"start", "end"} \subseteq match.given
                /\ ~(/\ match.start <= TimeOfDay(start_ts)
                     /\ TimeOfDay(start_ts) < match.end)
             THEN FALSE
        ELSE IF /\ rule_json.applies_to \notin {"", "all"}
                /\ rule_json.applies_to # target.type
             THEN FALSE
        ELSE TRUE

\* the orders in which a query without ORDER BY may return a set of rows
Orderings(ids) ==
    {f \in [1..Cardinality(ids) -> ids] :
        \A i, j \in 1..Cardinality(ids) : i # j => f[i] # f[j]}

EnabledRules(rules) ==
    {i \in 1..Len(rules) : rules[i].live /\ rules[i].enabled}

\* line 40: the enabled rules, in any order the store returns them
RuleQuery(rules) ==
    {[i \in 1..Cardinality(EnabledRules(rules)) |-> rules[o[i]]] :
        o \in Orderings(EnabledRules(rules))}

\* line 47: list.sort(key=priority, reverse=True) keeps the order of ties
AsReturned(rows) == rows

RECURSIVE InsertByPriority(_, _)
InsertByPriority(r, sorted) ==
    IF sorted = <<>> THEN <<r>>
    ELSE IF Head(sorted).priority >= r.priority
         THEN <<Head(sorted)>> \o InsertByPriority(r, Tail(sorted))
         ELSE <<r>> \o sorted

RECURSIVE SortByPriority(_)
SortByPriority(rows) ==
    IF rows = <<>> THEN <<>>
    ELSE InsertByPriority(rows[Len(rows)],
                          SortByPriority(SubSeq(rows, 1, Len(rows) - 1)))

\* lines 53-68: the total after one rule
ModifiedFlat(total, rule_json) == total + rule_json.modifier.value

Modified(total, rule_json) ==
    LET val == rule_json.modifier.value
        grown == (total * (100 + val)) \div 100
    IN  IF rule_json.modifier.type = "percentage"
        THEN IF rule_json.stack_behavior = "additive"
             THEN total + (total * val) \div 100
             ELSE IF rule_json.stack_behavior = "multiplicative" THEN grown
             ELSE IF rule_json.stack_behavior = "max"
                  THEN IF grown > total THEN grown ELSE total
             ELSE total
        ELSE IF rule_json.modifier.type = "absolute" THEN total + val
        ELSE total

\* lines 49-68: the rules are folded over the running total
RECURSIVE FoldRules(_, _, _)
FoldRules(applicable, total, breakdown_rules) ==
    IF applicable = <<>>
    THEN [total |-> total, rule_breakdown |-> breakdown_rules]
    ELSE LET r == Head(applicable)
             after == Modified(total, r.rule_json)
         IN  IF r.rule_json.modifier.type \in {"percentage", "absolute"}
             THEN FoldRules(Tail(applicable), after,
                      Append(breakdown_rules,
                             [name |-> r.name,
                              modifier |-> <<r.rule_json.modifier.value,
                                             r.rule_json.modifier.type>>,
                              after |-> after]))
             ELSE FoldRules(Tail(applicable), total, breakdown_rules)

\* lines 71-83: a line carries a fee only when the client sent one
Fee(e) == IF "fee" \in DOMAIN e THEN e.fee ELSE 0

RECURSIVE EquipmentItemsOf(_)
EquipmentItemsOf(equipment) ==
    IF equipment = <<>> THEN <<>>
    ELSE (IF Fee(Head(equipment)) * Head(equipment).quantity # 0
          THEN <<[name |-> <<"Equipment", Head(equipment).sku>>,
                  amount |-> Fee(Head(equipment)) * Head(equipment).quantity]>>
          ELSE <<>>)
         \o EquipmentItemsOf(Tail(equipment))

RECURSIVE SumAmount(_)
SumAmount(items) ==
    IF items = <<>> THEN 0 ELSE Head(items).amount + SumAmount(Tail(items))

\* compute_price: rows is what the query of line 40 returned, coach is the
\* id of the Coach row found, NoCoach when there is none
compute_price(rows, court, start_ts, end_ts, equipment, coach) ==
    LET duration_hours == end_ts - start_ts
        base == court.base_hourly * duration_hours
        applicable ==
            SortByPriority(SelectSeq(rows, LAMBDA r :
                rule_applies(r.rule_json, [type |-> court.type],
                             start_ts, end_ts)))
        folded == FoldRules(applicable, base, <<>>)
        eq_items == EquipmentItemsOf(equipment)
        coach_items ==
            IF coach \in DOMAIN Coaches
            THEN <<[name |-> <<"Coach", Coaches[coach].name>>,
                    amount |-> Coaches[coach].hourly_rate * duration_hours]>>
            ELSE <<>>
    IN  [base |-> base,
         rule_breakdown |-> folded.rule_breakdown,
         line_items |->
             <<[name |-> <<"Court", court.name, "base">>, amount |-> base]>>
             \o eq_items \o coach_items,
         total |-> folded.total + SumAmount(eq_items) + SumAmount(coach_items)]

NoPrice ==
    [base |-> 0, rule_breakdown |-> <<>>, line_items |-> <<>>, total |-> 0]

\* ---------------------------------------------------------------- floats
\* The amounts of compute_price are Python floats (IEEE 754 binary64).
\* A float is sign * m * 2^e with m a natural number of at most 53 bits,
\* kept odd (or zero). Naturals are sequences of limbs of LimbBits bits,
\* lowest limb first, without zero limbs at the high end. The results of
\* this model stay far from the ends of the exponent range, so overflow and
\* subnormals do not occur.
Mantissa == 53
LimbBits == 12
Base == 2 ^ LimbBits

RECURSIVE Limbs(_)
Limbs(n) == IF n = 0 THEN <<>> ELSE <<n % Base>> \o Limbs(n \div Base)

\* drop the zero limbs at the high end
RECURSIVE Trim(_)
Trim(a) ==
    IF a = <<>> THEN <<>>
    ELSE IF a[Len(a)] = 0 THEN Trim(SubSeq(a, 1, Len(a) - 1))
    ELSE a

Rest(a) == IF a = <<>> THEN <<>> ELSE Tail(a)
Low(a) == IF a = <<>> THEN 0 ELSE Head(a)

RECURSIVE AddLimbs(_, _, _)
AddLimbs(a, b, carry) ==
    IF a = <<>> /\ b = <<>>
    THEN IF carry = 0 THEN <<>> ELSE <<carry>>
    ELSE LET sum == Low(a) + Low(b) + carry
         IN  <<sum % Base>> \o AddLimbs(Rest(a), Rest(b), sum \div Base)

\* a - b for a >= b
RECURSIVE SubBorrow(_, _, _)
SubBorrow(a, b, borrow) ==
    IF a = <<>> THEN <<>>
    ELSE LET diff == Low(a) - Low(b) - borrow
         IN  <<diff % Base>> \o SubBorrow(Rest(a), Rest(b),
                                          IF diff < 0 THEN 1 ELSE 0)

SubLimbs(a, b) == Trim(SubBorrow(a, b, 0))

\* a < b, for naturals without high zero limbs
RECURSIVE LessLimbs(_, _)
LessLimbs(a, b) ==
    IF Len(a) # Len(b) THEN Len(a) < Len(b)
    ELSE IF a = <<>> THEN FALSE
    ELSE IF a[Len(a)] # b[Len(b)] THEN a[Len(a)] < b[Len(b)]
    ELSE LessLimbs(SubSeq(a, 1, Len(a) - 1), SubSeq(b, 1, Len(b) - 1))

\* a * k for a number k below Base
RECURSIVE TimesSmall(_, _, _)
TimesSmall(a, k, carry) ==
    IF a = <<>> THEN IF carry = 0 THEN <<>> ELSE <<carry>>
    ELSE LET cur == Head(a) * k + carry
         IN  <<cur % Base>> \o TimesSmall(Tail(a), k, cur \div Base)

RECURSIVE TimesLimbs(_, _)
TimesLimbs(a, b) ==
    IF b = <<>> \/ a = <<>> THEN <<>>
    ELSE Trim(AddLimbs(TimesSmall(a, Head(b), 0),
                       <<0>> \o TimesLimbs(a, Tail(b)), 0))

\* quotient and remainder of a by a number d of at most Base
RECURSIVE DivSmall(_, _)
DivSmall(a, d) ==
    IF a = <<>> THEN [q |-> <<>>, r |-> 0]
    ELSE LET high == DivSmall(Tail(a), d)
             cur == Base * high.r + Head(a)
         IN  [q |-> <<cur \div d>> \o high.q, r |-> cur % d]

\* a * 2^k and the whole part of a / 2^k
ShiftLeft(a, k) ==
    IF a = <<>> THEN <<>>
    ELSE [i \in 1..(k \div LimbBits) |-> 0]
         \o TimesSmall(a, 2 ^ (k % LimbBits), 0)

ShiftRight(a, k) ==
    IF k \div LimbBits >= Len(a) THEN <<>>
    ELSE Trim(DivSmall(SubSeq(a, k \div LimbBits + 1, Len(a)),
                       2 ^ (k % LimbBits)).q)

\* the number of bits of a number below Base, and of a natural
RECURSIVE BitsOf(_)
BitsOf(n) == IF n = 0 THEN 0 ELSE 1 + BitsOf(n \div 2)

BitLength(a) ==
    IF a = <<>> THEN 0 ELSE LimbBits * (Len(a) - 1) + BitsOf(a[Len(a)])

\* the number of zero bits at the low end of a number below Base, and of a
\* natural other than zero
RECURSIVE ZerosOf(_)
ZerosOf(n) == IF n % 2 = 1 THEN 0 ELSE 1 + ZerosOf(n \div 2)

RECURSIVE LowZeros(_)
LowZeros(a) ==
    IF Head(a) = 0 THEN LimbBits + LowZeros(Tail(a)) ELSE ZerosOf(Head(a))

Zero == [sign |-> 0, m |-> <<>>, e |-> 0]

\* the float sign * n * 2^e for a natural n of at most 53 bits
Canon(sign, n, e) ==
    IF n = <<>> THEN Zero
    ELSE [sign |-> sign, m |-> ShiftRight(n, LowZeros(n)),
          e |-> e + LowZeros(n)]

\* the float nearest to sign * n * 2^e, ties to the even mantissa
Round(sign, n, e) ==
    IF BitLength(n) <= Mantissa THEN Canon(sign, n, e)
    ELSE LET k == BitLength(n) - Mantissa
             guarded == ShiftRight(n, k - 1)
             kept == ShiftRight(n, k)
             sticky == ShiftLeft(guarded, k - 1) # n
             up == Head(guarded) % 2 = 1 /\ (sticky \/ Head(kept) % 2 = 1)
         IN  Canon(sign, IF up THEN AddLimbs(kept, <<1>>, 0) ELSE kept, e + k)

\* float(n) for a small integer n
Float(n) == Canon(IF n < 0 THEN 1 ELSE 0, Limbs(IF n < 0 THEN -n ELSE n), 0)

FloatMul(a, b) ==
    IF a.m = <<>> \/ b.m = <<>> THEN Zero
    ELSE Round((a.sign + b.sign) % 2, TimesLimbs(a.m, b.m), a.e + b.e)

FloatAdd(a, b) ==
    IF a.m = <<>> THEN b
    ELSE IF b.m = <<>> THEN a
    ELSE LET e == IF a.e < b.e THEN a.e ELSE b.e
             x == ShiftLeft(a.m, a.e - e)
             y == ShiftLeft(b.m, b.e - e)
         IN  IF a.sign = b.sign THEN Round(a.sign, AddLimbs(x, y, 0), e)
             ELSE IF x = y THEN Zero
             ELSE IF LessLimbs(x, y) THEN Round(b.sign, SubLimbs(y, x), e)
             ELSE Round(a.sign, SubLimbs(x, y), e)

\* a < b
FloatLess(a, b) ==
    LET diff == FloatAdd(b, [a EXCEPT !.sign = 1 - @])
    IN  diff.m # <<>> /\ diff.sign = 0

\* n / d for small integers n and d > 0: the quotient is carried to more
\* bits than a mantissa has, and one bit below them tells whether there
\* is a remainder
FloatDiv(n, d) ==
    LET scaled == ShiftLeft(Limbs(IF n < 0 THEN -n ELSE n), 64)
        div == DivSmall(scaled, d)
    IN  Round(IF n < 0 THEN 1 ELSE 0,
              AddLimbs(ShiftLeft(Trim(div.q), 1),
                       IF div.r # 0 THEN <<1>> ELSE <<>>, 0), -65)

\* lines 53-68 on floats: the total after one rule
ModifiedFloat(total, rule_json) ==
    LET val == rule_json.modifier.value
        grown == FloatMul(total, FloatAdd(Float(1), FloatDiv(val, 100)))
    IN  IF rule_json.modifier.type = "percentage"
        THEN IF rule_json.stack_behavior = "additive"
             THEN FloatAdd(total, FloatMul(total, FloatDiv(val, 100)))
             ELSE IF rule_json.stack_behavior = "multiplicative" THEN grown
             ELSE IF rule_json.stack_behavior = "max"
                  THEN IF FloatLess(total, grown) THEN grown ELSE total
             ELSE total
        ELSE IF rule_json.modifier.type = "absolute"
             THEN FloatAdd(total, Float(val))
        ELSE total

\* lines 49-68 on floats: the running totals after each folded rule
RECURSIVE FoldFloats(_, _, _)
FoldFloats(applicable, total, breakdown_rules) ==
    IF applicable = <<>>
    THEN [total |-> total, rule_breakdown |-> breakdown_rules]
    ELSE LET r == Head(applicable)
             after == ModifiedFloat(total, r.rule_json)
         IN  IF r.rule_json.modifier.type \in {"percentage", "absolute"}
             THEN FoldFloats(Tail(applicable), after,
                      Append(breakdown_rules,
                             [name |-> r.name,
                              modifier |-> <<r.rule_json.modifier.value,
                                             r.rule_json.modifier.type>>,
                              after |-> after]))
             ELSE FoldFloats(Tail(applicable), total, breakdown_rules)

\* compute_price without equipment and coach, amounts as floats
compute_priceFloat(rows, court, start_ts, end_ts) ==
    LET base == Float(court.base_hourly * (end_ts - start_ts))
        applicable ==
            SortByPriority(SelectSeq(rows, LAMBDA r :
                rule_applies(r.rule_json, [type |-> court.type],
                             start_ts, end_ts)))
        folded == FoldFloats(applicable, base, <<>>)
    IN  [base |-> base,
         rule_breakdown |-> folded.rule_breakdown,
         line_items |->
             <<[name |-> <<"Court", court.name, "base">>, amount |-> base]>>,
         total |-> folded.total]

\* ---------------------------------------------------------------- workloads
\* lists of at most two equipment lines, one of them with a SKU that has
\* no row in equipment_items
EquipmentLists ==
    {<<>>} \cup {<<Line(s, q)>> : s \in Skus, q \in {1, 2}}
           \cup {<<Line(s, 1), Line(t, 1)>> : s \in Skus, t \in Skus}
           \cup {<<Line("ghost", 1), Line(s, 2)>> : s \in Skus}

\* a request for the whole stock of rackets, and one for more than that
Equipped ==
    BookingRequest({"alice"}, {<<0, 2>>}, {2},
                   {<<Line("racket", 1)>>, <<Line("racket", 2)>>}, {NoCoach})

Inputs(w) ==
    CASE w = "courts" ->
           BookingRequest({"alice"}, {<<0, 2>>, <<1, 2>>, <<1, 1>>}, {1, 2},
                          {<<>>}, {NoCoach}) \cup Equipped
      [] w = "waitlist" ->
           BookingRequest(UserEmails, {<<0, 2>>, <<1, 2>>}, {1}, {<<>>},
                          {NoCoach}) \cup Equipped
      [] w = "equipment" ->
           BookingRequest({"alice"}, {<<0, 2>>}, {1, 2},
                          {<<>>, <<Line("racket", 1)>>}, {NoCoach, 1})
      [] w = "pricing" ->
           BookingRequest({"alice"}, {<<1, 2>>}, {1}, {<<>>}, {1})
           \cup Equipped
      [] w = "zones" ->
           BookingRequest(UserEmails, {<<0, 2>>}, {1}, {<<>>}, {NoCoach})
           \cup Aware(BookingRequest(UserEmails, {<<0, 2>>, <<1, 2>>}, {1},
                                     {<<>>}, {NoCoach}))
           \cup Equipped
      [] w = "fair" ->
           BookingRequest({"alice"}, {<<0, 2>>}, {1}, {<<>>}, {NoCoach})
           \cup Equipped
      [] w = "lines" ->
           BookingRequest({"alice"}, {<<0, 1>>, <<0, 2>>, <<1, 2>>}, CourtIds,
                          EquipmentLists, {NoCoach})

\* line 437: what compute_price may return for a request
Prices(r) ==
    {compute_price(rows, Courts[r.court_id], r.start_ts, r.end_ts,
                   r.equipment, r.coach_id) : rows \in RuleQuery(pricing_rules)}

\* a handler may start when a worker is free (workers are taken in order)
\* and the bound on calls is not reached
MayStart(p) ==
    /\ pc[p] = "idle"
    /\ \A q \in Threads : q < p => pc[q] # "idle"
    /\ serial => \A q \in Threads : pc[q] = "idle"
    /\ nCalls < MaxCalls

\* ---------------------------------------------------------------- create_booking
\* lines 423-437: the user row is created and committed, the court is
\* validated, and the transaction that will take the lock has begun
Start(p) ==
    /\ MayStart(p)
    /\ \E r \in Inputs(workload) :
        /\ req' = [req EXCEPT ![p] = r]
        /\ users' = users \cup {r.user_email}
        /\ IF r.court_id \notin DOMAIN Courts \/ ~Courts[r.court_id].enabled
           THEN /\ resp' = [resp EXCEPT ![p] =
                       [status |-> "rejected", id |-> 0,
                        detail |-> <<"court unavailable">>]]
                /\ UNCHANGED <<pc, txn, price>>
           ELSE /\ pc' = [pc EXCEPT ![p] = "lock"]
                /\ resp' = [resp EXCEPT ![p] = NoResponse]
                /\ txn' = [txn EXCEPT ![p] = clock + 1]
                /\ \E result \in Prices(r) :
                      price' = [price EXCEPT ![p] = result]
    /\ nCalls' = nCalls + 1
    /\ clock' = clock + 1
    /\ UNCHANGED <<bookings, allocations, waitlist, audit, held, overlapping,
                   degraded, bid, env, outside>>

\* lines 439-443: pg_advisory_xact_lock waits until no other transaction
\* holds the lock id
Lock(p) ==
    /\ pc[p] = "lock"
    /\ lockPrimitive
    /\ LET id == LockId(RequestSlotHash(req[p]))
       IN  /\ \A q \in Threads : held[q] # id
           /\ held' = [held EXCEPT ![p] = id]
    /\ pc' = [pc EXCEPT ![p] = "query"]
    /\ UNCHANGED <<tables, clock, req, txn, overlapping, degraded, bid, resp,
                   env, nCalls, price, outside>>

\* lines 444-445: the lock statement raises, the handler prints a warning
\* and goes on without the lock
LockFailRejects(p) ==
    /\ pc[p] = "lock"
    /\ ~lockPrimitive
    /\ resp' = [resp EXCEPT ![p] = [status |-> "rejected", id |-> 0,
                                    detail |-> <<"lock_timeout">>]]
    /\ pc' = [pc EXCEPT ![p] = "idle"]
    /\ price' = [price EXCEPT ![p] = NoPrice]
    /\ UNCHANGED <<tables, held, clock, req, txn, overlapping, degraded, bid,
                   env, nCalls, outside>>

LockFail(p) ==
    /\ pc[p] = "lock"
    /\ ~lockPrimitive
    /\ degraded' = [degraded EXCEPT ![p] = TRUE]
    /\ pc' = [pc EXCEPT ![p] = "query"]
    /\ UNCHANGED <<tables, held, clock, req, txn, overlapping, bid, resp,
                   env, nCalls, price, outside>>

\* lines 447-451
Query(p) ==
    /\ pc[p] = "query"
    /\ overlapping' = [overlapping EXCEPT ![p] = OverlappingQuery(req[p])]
    /\ pc' = [pc EXCEPT ![p] = "decide"]
    /\ UNCHANGED <<tables, held, clock, req, txn, degraded, bid, resp, env,
                   nCalls, price, outside>>

\* the handler returns: its transaction and its locals are gone
ReturnHolding(p, response) ==
    /\ resp' = [resp EXCEPT ![p] = response]
    /\ pc' = [pc EXCEPT ![p] = "idle"]
    /\ held' = held
    /\ txn' = [txn EXCEPT ![p] = 0]
    /\ overlapping' = [overlapping EXCEPT ![p] = {}]
    /\ degraded' = [degraded EXCEPT ![p] = FALSE]
    /\ bid' = [bid EXCEPT ![p] = 0]
    /\ price' = [price EXCEPT ![p] = NoPrice]

Return(p, response) ==
    /\ resp' = [resp EXCEPT ![p] = response]
    /\ pc' = [pc EXCEPT ![p] = "idle"]
    /\ held' = [held EXCEPT ![p] = NoLock]
    /\ txn' = [txn EXCEPT ![p] = 0]
    /\ overlapping' = [overlapping EXCEPT ![p] = {}]
    /\ degraded' = [degraded EXCEPT ![p] = FALSE]
    /\ bid' = [bid EXCEPT ![p] = 0]
    /\ price' = [price EXCEPT ![p] = NoPrice]

\* lines 453-460: the court is taken; the commit ends the transaction
Waitlist(p) ==
    /\ pc[p] = "decide"
    /\ CourtConflict(req[p], overlapping[p])
    /\ waitlist' = Append(waitlist,
           [slot_hash |-> RequestSlotHash(req[p]),
            user_id |-> req[p].user_email,
            created_at |-> txn[p],
            committed_at |-> clock,
            behind |-> {b \in overlapping[p] :
                           CourtConflict(req[p], {b})}])
    /\ Return(p, [status |-> "waitlisted", id |-> Len(waitlist) + 1,
                  detail |-> <<>>])
    /\ UNCHANGED <<users, bookings, allocations, audit, clock, req, env,
                   nCalls, outside>>

\* what lines 463-507 raise, <<>> when they raise nothing
Rejection(r, found) ==
    LET i == FirstBadLine(r, found)
    IN  IF i # 0
        THEN IF \/ r.equipment[i].sku \notin DOMAIN EquipmentItems
                \/ ~EquipmentItems[r.equipment[i].sku].active
             THEN <<"Equipment not available", r.equipment[i].sku>>
             ELSE <<"Insufficient availability", r.equipment[i].sku,
                    r.equipment[i].quantity,
                    AvailableQty(r.equipment[i].sku, found)>>
        ELSE IF CoachError(r, found) # "" THEN <<CoachError(r, found)>>
        ELSE <<>>

\* lines 463-507: an HTTPException leaves the handler; the session closes,
\* which rolls the transaction back
RejectFirst(p) ==
    /\ pc[p] = "decide"
    /\ Rejection(req[p], overlapping[p]) # <<>>
    /\ Return(p, [status |-> "rejected", id |-> 0,
                  detail |-> Rejection(req[p], overlapping[p])])
    /\ UNCHANGED <<tables, clock, req, env, nCalls, outside>>

Reject(p) ==
    /\ pc[p] = "decide"
    /\ ~CourtConflict(req[p], overlapping[p])
    /\ Rejection(req[p], overlapping[p]) # <<>>
    /\ Return(p, [status |-> "rejected", id |-> 0,
                  detail |-> Rejection(req[p], overlapping[p])])
    /\ UNCHANGED <<tables, clock, req, env, nCalls, outside>>

\* lines 509-532: the Booking and its allocations become visible together,
\* and the commit releases the lock; the DateTime columns keep the
\* timestamps without their offset
Confirm(p) ==
    /\ pc[p] = "decide"
    /\ ~CourtConflict(req[p], overlapping[p])
    /\ Rejection(req[p], overlapping[p]) = <<>>
    /\ ~DataError(req[p])
    /\ bookings' = Append(bookings,
           [user_id |-> req[p].user_email, start_ts |-> req[p].start_ts,
            end_ts |-> req[p].end_ts, status |-> "confirmed",
            total_price |-> price[p].total, pricing_snapshot |-> price[p]])
    /\ allocations' = allocations \o NewAllocations(Len(bookings) + 1, req[p])
    /\ bid' = [bid EXCEPT ![p] = Len(bookings) + 1]
    /\ held' = [held EXCEPT ![p] = NoLock]
    /\ pc' = [pc EXCEPT ![p] = "audit"]
    /\ UNCHANGED <<users, waitlist, audit, clock, req, txn, overlapping,
                   degraded, resp, env, nCalls, price, outside>>

\* lines 509-531: the store refuses an allocation row; the exception leaves
\* the handler and the session closes, which rolls the transaction back
StorageError(p) ==
    /\ pc[p] = "decide"
    /\ ~CourtConflict(req[p], overlapping[p])
    /\ Rejection(req[p], overlapping[p]) = <<>>
    /\ DataError(req[p])
    /\ Return(p, [status |-> "error", id |-> 0, detail |-> <<"DataError">>])
    /\ UNCHANGED <<tables, clock, req, env, nCalls, outside>>

\* lines 534-538
Audit(p) ==
    /\ pc[p] = "audit"
    /\ audit' = Append(audit,
           [booking_id |-> bid[p], event_type |-> "confirmed",
            payload |-> <<req[p].user_email>>, entry |-> 0])
    /\ Return(p, [status |-> "confirmed", id |-> bid[p], detail |-> <<>>])
    /\ UNCHANGED <<users, bookings, allocations, waitlist, clock, req, env,
                   nCalls, outside>>

\* ---------------------------------------------------------------- cancel_booking
\* line 564: the row stays, its status is overwritten
CancelledReversibly(rows, id) ==
    [rows EXCEPT ![id].status =
        IF @ = "confirmed" THEN "cancelled" ELSE "confirmed"]

CancelledAll(rows, id) ==
    [b \in DOMAIN rows |-> [rows[b] EXCEPT !.status = "cancelled"]]

CancelledRefunded(rows, id) ==
    [rows EXCEPT ![id].status = "cancelled", ![id].total_price = 0]

Cancelled(rows, id) == [rows EXCEPT ![id].status = "cancelled"]

\* lines 560-565: the status is written and committed, whatever it was
Cancel(p) ==
    /\ MayStart(p)
    /\ \E id \in 1..(Len(bookings) + 1) :
        IF id \notin BookingIds
        THEN /\ resp' = [resp EXCEPT ![p] =
                    [status |-> "not_found", id |-> id, detail |-> <<>>]]
             /\ UNCHANGED <<bookings, pc, bid>>
        ELSE /\ bookings' = Cancelled(bookings, id)
             /\ bid' = [bid EXCEPT ![p] = id]
             /\ resp' = [resp EXCEPT ![p] = NoResponse]
             /\ pc' = [pc EXCEPT ![p] = "promote"]
    /\ req' = [req EXCEPT ![p] = NoRequest]
    /\ nCalls' = nCalls + 1
    /\ clock' = clock + 1
    /\ UNCHANGED <<users, allocations, waitlist, audit, held, txn,
                   overlapping, degraded, env, price, outside>>

\* line 567: the fingerprint recomputed from the stored Booking
CancelSlotHash(b) ==
    SlotHash(bookings[b].start_ts, bookings[b].end_ts,
             IF AllocationsOf(b) # <<>>
             THEN AllocationsOf(b)[1].resource_id ELSE "unknown")

\* line 568: the entries order_by(created_at).first() may return
NextUserLast(slot_hash) ==
    LET found == {i \in 1..Len(waitlist) : waitlist[i].slot_hash = slot_hash}
    IN  {i \in found :
            \A j \in found : waitlist[j].created_at <= waitlist[i].created_at}

NextUserById(slot_hash) ==
    LET found == {i \in 1..Len(waitlist) : waitlist[i].slot_hash = slot_hash}
    IN  {i \in found : \A j \in found : i <= j}

NextUser(slot_hash) ==
    LET found == {i \in 1..Len(waitlist) : waitlist[i].slot_hash = slot_hash}
    IN  {i \in found :
            \A j \in found : waitlist[i].created_at <= waitlist[j].created_at}

\* lines 567-575
Promote(p) ==
    /\ pc[p] = "promote"
    /\ LET next == NextUser(CancelSlotHash(bid[p]))
       IN  IF next # {}
           THEN \E e \in next :
                /\ audit' = Append(audit,
                       [booking_id |-> bid[p], event_type |-> "cancelled",
                        payload |-> <<waitlist[e].user_id>>, entry |-> e])
                /\ Return(p, [status |-> "cancelled", id |-> bid[p],
                              detail |-> <<waitlist[e].user_id>>])
           ELSE /\ audit' = audit
                /\ Return(p, [status |-> "cancelled", id |-> bid[p],
                              detail |-> <<>>])
    /\ UNCHANGED <<users, bookings, allocations, waitlist, clock, req, env,
                   nCalls, outside>>

\* ---------------------------------------------------------------- pricing rules
\* the rows an administrator sends
RuleChoices ==
    {PricingRule("Peak", TRUE, 10, PeakJson),
     PricingRule("Indoor", TRUE, 10, IndoorJson),
     PricingRule("Indoor", FALSE, 8, IndoorJson),
     PricingRule("Flat", TRUE, 10, FlatJson)}

\* the other handlers of this section leave the bookings alone
RuleFrame ==
    /\ nCalls < MaxCalls
    /\ nCalls' = nCalls + 1
    /\ UNCHANGED <<users, bookings, allocations, waitlist, audit, held, clock,
                   pc, req, txn, overlapping, degraded, bid, resp, env, price,
                   notified>>

\* create_pricing_rule
CreateRule ==
    /\ Len(pricing_rules) < MaxRules
    /\ pricing_rules' =
           Append(pricing_rules, PricingRule("Flat", TRUE, 10, FlatJson))
    /\ UNCHANGED quotes
    /\ RuleFrame

\* update_pricing_rule: 404 for an id without a row
UpdateRule ==
    /\ \E id \in 1..(Len(pricing_rules) + 1), rule \in RuleChoices :
          pricing_rules' =
              IF id <= Len(pricing_rules) /\ pricing_rules[id].live
              THEN [pricing_rules EXCEPT ![id] = rule]
              ELSE pricing_rules
    /\ UNCHANGED quotes
    /\ RuleFrame

\* delete_pricing_rule: 404 for an id without a row
DeleteRule ==
    /\ \E id \in 1..(Len(pricing_rules) + 1) :
          pricing_rules' =
              IF id <= Len(pricing_rules) /\ pricing_rules[id].live
              THEN [pricing_rules EXCEPT ![id].live = FALSE]
              ELSE pricing_rules
    /\ UNCHANGED quotes
    /\ RuleFrame

\* the courts and intervals simulate_pricing is asked about: an interval
\* may start before the peak hour and cover it, or start in it and end on
\* the next day
SimulatedCourts == {1, 3}
SimulatedIntervals(w) ==
    IF w = "rules"
    THEN {<<0, 1>>, <<1, 2>>, <<0, 2>>, <<1, 3>>, <<2, 3>>}
    ELSE {<<0, 1>>, <<1, 2>>}

\* simulate_pricing: compute_price without equipment and coach; the latest
\* answer is kept, with the rows the rule query returned for it
Simulate ==
    /\ \E court_id \in SimulatedCourts,
          interval \in SimulatedIntervals(workload) :
       \E rows \in RuleQuery(pricing_rules) :
          quotes' =
              <<[court_id |-> court_id, start_ts |-> interval[1],
                 end_ts |-> interval[2],
                 rules |-> {<<i, pricing_rules[i]>> :
                               i \in EnabledRules(pricing_rules)},
                 rows |-> rows,
                 result |-> compute_price(rows, Courts[court_id], interval[1],
                                          interval[2], <<>>, NoCoach)]>>
    /\ UNCHANGED pricing_rules
    /\ RuleFrame

\* ---------------------------------------------------------------- specifications
InitStore ==
    /\ users = {}
    /\ bookings = <<>>
    /\ allocations = <<>>
    /\ waitlist = <<>>
    /\ audit = <<>>
    /\ held = [p \in Threads |-> NoLock]
    /\ clock = 0
    /\ pc = [p \in Threads |-> "idle"]
    /\ req = [p \in Threads |-> NoRequest]
    /\ txn = [p \in Threads |-> 0]
    /\ overlapping = [p \in Threads |-> {}]
    /\ degraded = [p \in Threads |-> FALSE]
    /\ bid = [p \in Threads |-> 0]
    /\ resp = [p \in Threads |-> NoResponse]
    /\ nCalls = 0
    /\ price = [p \in Threads |-> NoPrice]
    /\ pricing_rules = SeedRules
    /\ quotes = <<>>
    /\ notified = <<>>

Next ==
    \E p \in Threads :
        \/ Start(p)
        \/ Lock(p)
        \/ LockFail(p)
        \/ Query(p)
        \/ Waitlist(p)
        \/ Reject(p)
        \/ Confirm(p)
        \/ StorageError(p)
        \/ Audit(p)
        \/ Cancel(p)
        \/ Promote(p)

\* concurrent handlers, court-only requests
Init ==
    /\ InitStore
    /\ lockPrimitive \in BOOLEAN
    /\ workload = "courts"
    /\ serial = FALSE

Spec == Init /\ [][Next]_vars

\* concurrent handlers, requests for one court by two users
InitWaitlist ==
    /\ InitStore
    /\ lockPrimitive \in BOOLEAN
    /\ workload = "waitlist"
    /\ serial = FALSE

SpecWaitlist == InitWaitlist /\ [][Next]_vars

\* concurrent handlers, requests with one equipment line and a coach
InitEquipment ==
    /\ InitStore
    /\ lockPrimitive \in BOOLEAN
    /\ workload = "equipment"
    /\ serial = FALSE

SpecEquipment == InitEquipment /\ [][Next]_vars

\* one call at a time, requests with lists of equipment lines
InitSerial ==
    /\ InitStore
    /\ lockPrimitive \in BOOLEAN
    /\ workload = "lines"
    /\ serial = TRUE

SpecSerial == InitSerial /\ [][Next]_vars

\* one booking call at a time, with the pricing endpoints called in between
InitPricing ==
    /\ InitStore
    /\ lockPrimitive \in BOOLEAN
    /\ workload = "pricing"
    /\ serial = TRUE

NextPricing ==
    \/ Next
    \/ CreateRule
    \/ UpdateRule
    \/ DeleteRule
    \/ Simulate

SpecPricing == InitPricing /\ [][NextPricing]_vars

\* the rules an administrator may have stored: a disabled rule, rules of
\* equal priority, a rule for indoor courts with a time window and one
\* without any match clause, a rule for one day of the week
RulePool ==
    {PricingRule("Peak", TRUE, 10, PeakJson),
     PricingRule("Indoor", TRUE, 8, IndoorJson),
     PricingRule("Flat", TRUE, 10, FlatJson),
     PricingRule("Off", FALSE, 12, FlatJson),
     PricingRule("IndoorPeak", TRUE, 8,
         RuleJson(Match({"start", "end"}, {}, DayLen - 1, DayLen),
                  "indoor", "absolute", 60, "additive")),
     PricingRule("Tomorrow", TRUE, 5,
         RuleJson(Match({"days"}, {1}, 0, 0), "all", "absolute", 40,
                  "additive"))}

\* the pricing_rules tables of at most MaxRules different rules
RuleLists ==
    {rules \in UNION {[1..n -> RulePool] : n \in 0..MaxRules} :
        \A i, j \in 1..Len(rules) : i # j => rules[i] # rules[j]}

\* the pricing endpoint alone, asked about any table of rules
InitRules ==
    /\ users = {}
    /\ bookings = <<>>
    /\ allocations = <<>>
    /\ waitlist = <<>>
    /\ audit = <<>>
    /\ held = [p \in Threads |-> NoLock]
    /\ clock = 0
    /\ pc = [p \in Threads |-> "idle"]
    /\ req = [p \in Threads |-> NoRequest]
    /\ txn = [p \in Threads |-> 0]
    /\ overlapping = [p \in Threads |-> {}]
    /\ degraded = [p \in Threads |-> FALSE]
    /\ bid = [p \in Threads |-> 0]
    /\ resp = [p \in Threads |-> NoResponse]
    /\ nCalls = 0
    /\ price = [p \in Threads |-> NoPrice]
    /\ pricing_rules \in RuleLists
    /\ quotes = <<>>
    /\ notified = <<>>
    /\ lockPrimitive = TRUE
    /\ workload = "rules"
    /\ serial = TRUE

SpecRules == InitRules /\ [][Simulate]_vars

\* percentage rules without match clauses, of each stack behaviour, with
\* values above and below zero
Percent(name, value, stack_behavior) ==
    PricingRule(name, TRUE, 5,
        RuleJson(Match({}, {}, 0, 0), "", "percentage", value, stack_behavior))

StackPool ==
    {Percent("add-20", -20, "additive"), Percent("add15", 15, "additive"),
     Percent("add25", 25, "additive"),
     Percent("mul-20", -20, "multiplicative"),
     Percent("mul15", 15, "multiplicative"),
     Percent("mul25", 25, "multiplicative"),
     Percent("max-20", -20, "max"), Percent("max15", 15, "max"),
     Percent("max25", 25, "max")}

StackLists ==
    {rules \in UNION {[1..n -> StackPool] : n \in 0..2} :
        \A i, j \in 1..Len(rules) : i # j => rules[i] # rules[j]}

\* simulate_pricing with the amounts computed as the floats they are
SimulateFloat ==
    /\ \E court_id \in SimulatedCourts,
          interval \in SimulatedIntervals(workload) :
       \E rows \in RuleQuery(pricing_rules) :
          quotes' =
              <<[court_id |-> court_id, start_ts |-> interval[1],
                 end_ts |-> interval[2],
                 rules |-> {<<i, pricing_rules[i]>> :
                               i \in EnabledRules(pricing_rules)},
                 rows |-> rows,
                 result |-> compute_priceFloat(rows, Courts[court_id],
                                               interval[1], interval[2])]>>
    /\ UNCHANGED pricing_rules
    /\ RuleFrame

\* the pricing endpoint alone, asked about tables of percentage rules
InitStacking ==
    /\ users = {}
    /\ bookings = <<>>
    /\ allocations = <<>>
    /\ waitlist = <<>>
    /\ audit = <<>>
    /\ held = [p \in Threads |-> NoLock]
    /\ clock = 0
    /\ pc = [p \in Threads |-> "idle"]
    /\ req = [p \in Threads |-> NoRequest]
    /\ txn = [p \in Threads |-> 0]
    /\ overlapping = [p \in Threads |-> {}]
    /\ degraded = [p \in Threads |-> FALSE]
    /\ bid = [p \in Threads |-> 0]
    /\ resp = [p \in Threads |-> NoResponse]
    /\ nCalls = 0
    /\ price = [p \in Threads |-> NoPrice]
    /\ pricing_rules \in StackLists
    /\ quotes = <<>>
    /\ notified = <<>>
    /\ lockPrimitive = TRUE
    /\ workload = "stacking"
    /\ serial = TRUE

SpecStacking == InitStacking /\ [][SimulateFloat]_vars

\* one call at a time, requests whose timestamps carry the offset of UTC
\* beside requests whose timestamps carry none
InitZones ==
    /\ InitStore
    /\ lockPrimitive \in BOOLEAN
    /\ workload = "zones"
    /\ serial = TRUE

SpecZones == InitZones /\ [][Next]_vars

\* the steps a started handler takes by itself: the server runs every
\* handler it has started, and the store grants a lock that stays free
Continue(p) ==
    \/ Lock(p)
    \/ LockFail(p)
    \/ Query(p)
    \/ Waitlist(p)
    \/ Reject(p)
    \/ Confirm(p)
    \/ StorageError(p)
    \/ Audit(p)
    \/ Promote(p)

\* concurrent handlers under fair scheduling, requests for one slot of
\* court 1 and for the rackets on court 2
InitFair ==
    /\ InitStore
    /\ lockPrimitive \in BOOLEAN
    /\ workload = "fair"
    /\ serial = FALSE

SpecFair ==
    InitFair /\ [][Next]_vars /\ \A p \in Threads : WF_vars(Continue(p))

\* ---------------------------------------------------------------- properties
\* Booking b holds an allocation on court c
HoldsCourt(b, c) ==
    \E i \in 1..Len(allocations) :
        /\ allocations[i].booking_id = b
        /\ allocations[i].resource_type = "court"
        /\ allocations[i].resource_id = c

Confirmed == {b \in BookingIds : bookings[b].status = "confirmed"}

Overlap(a, b) ==
    /\ bookings[a].start_ts < bookings[b].end_ts
    /\ bookings[b].start_ts < bookings[a].end_ts

\* C1: no two confirmed Bookings with overlapping intervals hold the same
\* court, under any interleaving and for any requested intervals. Stated
\* for the store whose lock primitive works and for intervals that end
\* after they start.
Proper(b) == bookings[b].start_ts < bookings[b].end_ts

C1_NoDoubleBooking ==
    lockPrimitive =>
        \A a \in Confirmed, b \in Confirmed :
            (a # b /\ Proper(a) /\ Proper(b) /\ Overlap(a, b)) =>
                \A c \in CourtIds : ~(HoldsCourt(a, c) /\ HoldsCourt(b, c))

\* C2: of two create_booking calls with identical (start_ts, end_ts,
\* court_id) that both went through the slot lock, at most one is confirmed.
C2_AtMostOneConfirmed ==
    lockPrimitive =>
        \A a \in Confirmed, b \in Confirmed :
            (/\ a # b
             /\ bookings[a].start_ts = bookings[b].start_ts
             /\ bookings[a].end_ts = bookings[b].end_ts) =>
                \A c \in CourtIds : ~(HoldsCourt(a, c) /\ HoldsCourt(b, c))

\* the Bookings, of any status, that hold the court of p's request over an
\* interval overlapping the request's
Blockers(p) ==
    {b \in BookingIds :
        /\ HoldsCourt(b, req[p].court_id)
        /\ bookings[b].start_ts < req[p].end_ts
        /\ bookings[b].end_ts > req[p].start_ts}

\* C3: a create_booking call without equipment and coach for an enabled
\* court is never rejected, and it is confirmed unless some Booking holds
\* that same court over an overlapping interval: Bookings on other courts
\* never stand in its way.
C3_DifferentCourtsNoConflict ==
    [][\A p \in Threads :
          (/\ pc[p] = "decide"
           /\ pc'[p] # "decide"
           /\ req[p].equipment = <<>>
           /\ req[p].coach_id = NoCoach) =>
              /\ resp'[p].status # "rejected"
              /\ Blockers(p) = {} => pc'[p] = "audit"]_vars

C3_Witness ==
    \E a \in Confirmed, b \in Confirmed :
        /\ bookings[a].start_ts = bookings[b].start_ts
        /\ bookings[a].end_ts = bookings[b].end_ts
        /\ bookings[a].start_ts < bookings[a].end_ts
        /\ HoldsCourt(a, 1)
        /\ HoldsCourt(b, 2)
        /\ \E p \in Threads : resp[p] = [status |-> "confirmed", id |-> b,
                                         detail |-> <<>>]

\* a state in which some Booking has been cancelled and another is confirmed
C10_Witness ==
    /\ Confirmed # {}
    /\ \E b \in BookingIds : bookings[b].status = "cancelled"
    /\ \E p \in Threads : resp[p].status = "cancelled"

\* C10: a Booking's status only moves confirmed -> cancelled. Every step
\* keeps all Bookings (none deleted, none altered but for the status); a
\* status changes only from confirmed to cancelled and only in the step
\* in which cancel_booking writes it; a new Booking is confirmed and is
\* added only by the confirm step of create_booking.
C10_Lifecycle ==
    [][/\ Len(bookings') >= Len(bookings)
       /\ \A b \in BookingIds :
            /\ bookings'[b].user_id = bookings[b].user_id
            /\ bookings'[b].start_ts = bookings[b].start_ts
            /\ bookings'[b].end_ts = bookings[b].end_ts
            /\ \/ bookings'[b].status = bookings[b].status
               \/ /\ bookings[b].status = "confirmed"
                  /\ bookings'[b].status = "cancelled"
                  /\ \E p \in Threads :
                        pc[p] = "idle" /\ pc'[p] = "promote" /\ bid'[p] = b
       /\ \A b \in (Len(bookings) + 1)..Len(bookings') :
            /\ bookings'[b].status = "confirmed"
            /\ Len(bookings') = Len(bookings) + 1
            /\ \E p \in Threads :
                  pc[p] = "decide" /\ pc'[p] = "audit" /\ bid'[p] = b]_vars

\* the quantity of a SKU in the equipment allocations of a set of Bookings,
\* summed over the first n rows of booking_allocations
RECURSIVE EquipmentHeld(_, _, _)
EquipmentHeld(sku, holders, n) ==
    IF n = 0 THEN 0
    ELSE (IF /\ allocations[n].booking_id \in holders
             /\ allocations[n].resource_type = "equipment"
             /\ allocations[n].resource_id = sku
          THEN allocations[n].quantity ELSE 0)
         + EquipmentHeld(sku, holders, n - 1)

\* C4: under any interleaving of create_booking calls, for every SKU and
\* every instant t, the quantities of the SKU allocated to confirmed
\* Bookings whose interval contains t sum to at most total_quantity.
C4_Capacity ==
    \A sku \in Skus, t \in Times :
        EquipmentHeld(sku,
                      {b \in Confirmed : /\ bookings[b].start_ts <= t
                                         /\ t < bookings[b].end_ts},
                      Len(allocations))
            <= EquipmentItems[sku].total_quantity

\* C5: when create_booking calls run one at a time, with any lists of
\* equipment lines, the quantities of a SKU allocated to confirmed Bookings
\* that overlap one another sum to at most total_quantity.
C5_SerialCapacity ==
    \A sku \in Skus : \A group \in SUBSET Confirmed :
        (\A a \in group, b \in group : Overlap(a, b)) =>
            EquipmentHeld(sku, group, Len(allocations))
                <= EquipmentItems[sku].total_quantity

\* C6: when the conflict query of a create_booking call found a confirmed
\* Booking on the requested court, the call returns waitlisted, adds exactly
\* one WaitlistEntry, for the requested fingerprint and the requesting user,
\* and adds no Booking, allocation or AuditEvent, whatever its equipment
\* lines and coach are.
C6_WaitlistBranch ==
    [][\A p \in Threads :
          (/\ pc[p] = "decide"
           /\ pc'[p] # "decide"
           /\ \E b \in overlapping[p] : HoldsCourt(b, req[p].court_id)) =>
              /\ resp'[p].status = "waitlisted"
              /\ Len(waitlist') = Len(waitlist) + 1
              /\ SubSeq(waitlist', 1, Len(waitlist)) = waitlist
              /\ waitlist'[Len(waitlist')].slot_hash =
                    <<isoformat(req[p].start_ts), isoformat(req[p].end_ts),
                      req[p].court_id>>
              /\ waitlist'[Len(waitlist')].user_id = req[p].user_email
              /\ resp'[p].id = Len(waitlist')
              /\ bookings' = bookings
              /\ allocations' = allocations
              /\ audit' = audit]_vars

\* a call with an equipment line and a coach was waitlisted while the
\* confirmed Booking on its court holds the whole stock and the coach
C6_Witness ==
    \E p \in Threads : \E b \in Confirmed :
        /\ resp[p].status = "waitlisted"
        /\ req[p].equipment # <<>>
        /\ req[p].coach_id # NoCoach
        /\ HoldsCourt(b, req[p].court_id)
        /\ Overlap(b, b)
        /\ EquipmentHeld("racket", {b}, Len(allocations))
              >= EquipmentItems["racket"].total_quantity
        /\ waitlist # <<>>
        /\ waitlist[Len(waitlist)].user_id = req[p].user_email

\* the waitlist entries stored under the fingerprint of Booking a
EntriesFor(a) ==
    {i \in 1..Len(waitlist) :
        \E c \in CourtIds :
            /\ HoldsCourt(a, c)
            /\ waitlist[i].slot_hash =
                  <<isoformat(bookings[a].start_ts),
                    isoformat(bookings[a].end_ts), c>>}

\* handler p ends a cancel_booking call in this step
Cancels(p) == pc[p] = "promote" /\ pc'[p] = "idle"

C9_NoDoubleReport ==
    \A i \in 1..Len(audit), j \in 1..Len(audit) :
        (/\ lockPrimitive
         /\ i # j
         /\ audit[i].event_type = "cancelled"
         /\ audit[j].event_type = "cancelled"
         /\ audit[i].entry = audit[j].entry) =>
            audit[i].entry = 0

\* C11: no step changes the pricing_snapshot or the total_price of a
\* Booking that exists, whether it is a step of create_booking, of
\* cancel_booking or of a pricing-rule handler, and the total_price of every
\* Booking is the total of its snapshot.
C11_SnapshotImmutable ==
    [][/\ \A b \in BookingIds :
            /\ b <= Len(bookings')
            /\ bookings'[b].pricing_snapshot = bookings[b].pricing_snapshot
            /\ bookings'[b].total_price = bookings[b].total_price
       /\ \A b \in 1..Len(bookings') :
            bookings'[b].total_price = bookings'[b].pricing_snapshot.total]_vars

\* a Booking priced by the rules was cancelled, and one of the rules that
\* priced it has been deleted since
C11_Witness ==
    \E b \in BookingIds : \E i \in 1..Len(pricing_rules) :
        /\ bookings[b].status = "cancelled"
        /\ ~pricing_rules[i].live
        /\ \E k \in 1..Len(bookings[b].pricing_snapshot.rule_breakdown) :
              bookings[b].pricing_snapshot.rule_breakdown[k].name =
                  pricing_rules[i].name
        /\ bookings[b].total_price > bookings[b].pricing_snapshot.base

\* C12: an evaluation of compute_price that has the court, the interval and
\* the set of enabled rules of the evaluation before it returns the same
\* total and the same rule_breakdown, also when rules have equal priority.
C12_Deterministic ==
    [][(/\ quotes # <<>>
        /\ quotes' # <<>>
        /\ quotes'[1].court_id = quotes[1].court_id
        /\ quotes'[1].start_ts = quotes[1].start_ts
        /\ quotes'[1].end_ts = quotes[1].end_ts
        /\ quotes'[1].rules = quotes[1].rules) =>
           /\ quotes'[1].result.total = quotes[1].result.total
           /\ quotes'[1].result.rule_breakdown =
                 quotes[1].result.rule_breakdown]_vars

\* the enabled rules of a quote that apply to its court and interval
ApplicableTo(q) ==
    {x \in q.rules :
        rule_applies(x[2].rule_json, [type |-> Courts[q.court_id].type],
                     q.start_ts, q.end_ts)}

\* the additive percentage rules of value val among a set of rules
Additive(rules, val) ==
    {x \in rules :
        /\ x[2].rule_json.modifier.type = "percentage"
        /\ x[2].rule_json.modifier.value = val
        /\ x[2].rule_json.stack_behavior = "additive"}

\* C13: for one hour on a court of base 600, one applicable additive +20%
\* rule gives 720, one applicable additive +25% rule gives 750, and the two
\* together give 900 (compounded on the running total), not 870.
C13_Stacking ==
    \A i \in 1..Len(quotes) :
        LET q == quotes[i]
            app == ApplicableTo(q)
        IN  (/\ Courts[q.court_id].base_hourly = 600
             /\ q.end_ts - q.start_ts = 1) =>
                /\ (Cardinality(app) = 1 /\ Additive(app, 20) = app) =>
                      q.result.total = 720
                /\ (Cardinality(app) = 1 /\ Additive(app, 25) = app) =>
                      q.result.total = 750
                /\ (/\ Cardinality(app) = 2
                    /\ Cardinality(Additive(app, 20)) = 1
                    /\ Cardinality(Additive(app, 25)) = 1) =>
                      /\ q.result.total = 900
                      /\ q.result.total # 870

\* a quote for one hour at base 600 under a +20% and a +25% rule
C13_Witness ==
    \E i \in 1..Len(quotes) :
        /\ quotes[i].result.base = 600
        /\ quotes[i].end_ts - quotes[i].start_ts = 1
        /\ Cardinality(ApplicableTo(quotes[i])) = 2
        /\ Cardinality(Additive(ApplicableTo(quotes[i]), 20)) = 1
        /\ Cardinality(Additive(ApplicableTo(quotes[i]), 25)) = 1
        /\ Len(quotes[i].result.rule_breakdown) = 2
        /\ quotes[i].result.rule_breakdown[2].after = 900

\* the confirmed Bookings whose interval overlaps the request of p
Overlapping(p) ==
    {b \in Confirmed : /\ bookings[b].start_ts < req[p].end_ts
                       /\ bookings[b].end_ts > req[p].start_ts}

\* what is left of a SKU over the interval of p's request
Available(p, sku) ==
    EquipmentItems[sku].total_quantity
        - EquipmentHeld(sku, Overlapping(p), Len(allocations))

\* the lines of p's request that ask for more of a SKU than is left
OverAsking(p) ==
    {i \in 1..Len(req[p].equipment) :
        /\ req[p].equipment[i].sku \in Skus
        /\ req[p].equipment[i].quantity > Available(p, req[p].equipment[i].sku)}

\* the lines of p's request that name a SKU without an active row
Unknown(p) ==
    {i \in 1..Len(req[p].equipment) : req[p].equipment[i].sku \notin Skus}

\* p decides a request that meets no court conflict and over-asks
Overasks(p) ==
    /\ pc[p] = "decide"
    /\ pc'[p] # "decide"
    /\ \A b \in Overlapping(p) : ~HoldsCourt(b, req[p].court_id)
    /\ OverAsking(p) # {}

\* the rejection names line i with its requested and available quantity
CarriesLine(p, i) ==
    resp'[p].detail =
        <<"Insufficient availability", req[p].equipment[i].sku,
          req[p].equipment[i].quantity,
          Available(p, req[p].equipment[i].sku)>>

NothingWritten ==
    /\ bookings' = bookings
    /\ allocations' = allocations
    /\ waitlist' = waitlist
    /\ audit' = audit

\* C14 as stated: a request without court conflict of which some line
\* over-asks is rejected, the rejection carries the requested and the
\* available quantity of such a line, and nothing is written.
C14_Original ==
    [][\A p \in Threads : Overasks(p) =>
          /\ resp'[p].status = "rejected"
          /\ \E i \in OverAsking(p) : CarriesLine(p, i)
          /\ NothingWritten]_vars

\* C14: such a request is rejected and nothing is written; the rejection
\* is that of the first line that fails validation: the requested and the
\* available quantity of that line when it over-asks, the name of its SKU
\* alone when the SKU has no active row.
C14_Amended ==
    [][\A p \in Threads : Overasks(p) =>
          LET first == CHOOSE i \in OverAsking(p) \cup Unknown(p) :
                          \A j \in OverAsking(p) \cup Unknown(p) : i <= j
          IN  /\ resp'[p].status = "rejected"
              /\ IF first \in Unknown(p)
                 THEN resp'[p].detail = <<"Equipment not available",
                                          req[p].equipment[first].sku>>
                 ELSE CarriesLine(p, first)
              /\ NothingWritten]_vars

\* a request was refused the one racket there is because a confirmed
\* Booking on another court holds it over the same interval
C14_Witness ==
    \E p \in Threads : \E b \in Confirmed :
        /\ resp[p] = [status |-> "rejected", id |-> 0,
                      detail |-> <<"Insufficient availability", "racket",
                                   1, 0>>]
        /\ ~HoldsCourt(b, req[p].court_id)
        /\ bookings[b].start_ts < req[p].end_ts
        /\ bookings[b].end_ts > req[p].start_ts
        /\ EquipmentHeld("racket", {b}, Len(allocations)) = 1

\* Booking b holds an allocation on coach k
HoldsCoach(b, k) ==
    \E i \in 1..Len(allocations) :
        /\ allocations[i].booking_id = b
        /\ allocations[i].resource_type = "coach"
        /\ allocations[i].resource_id = k

\* C15: under any interleaving of create_booking calls, no two confirmed
\* Bookings with overlapping intervals hold the same coach, and every coach
\* a confirmed Booking holds is active. Stated for the store whose lock
\* primitive works and for intervals that end after they start.
C15_CoachExclusive ==
    lockPrimitive =>
        /\ \A a \in Confirmed, b \in Confirmed :
              (a # b /\ Proper(a) /\ Proper(b) /\ Overlap(a, b)) =>
                  \A k \in CoachIds : ~(HoldsCoach(a, k) /\ HoldsCoach(b, k))
        /\ \A b \in Confirmed : \A k \in CoachIds :
              HoldsCoach(b, k) => Coaches[k].active

\* The availability window a, laid on the day the interval starts, contains
\* the whole interval [start_ts, end_ts]
InsideWindow(a, start_ts, end_ts) ==
    /\ a.day_of_week = DayOfWeek(start_ts)
    /\ DayLen * a.day_of_week + a.start_time <= start_ts
    /\ end_ts <= DayLen * a.day_of_week + a.end_time

\* C16: every confirmed Booking that holds a coach has its whole interval
\* inside an availability window of that coach on the day the interval
\* starts; an interval that runs past the window's end, across midnight
\* included, is never confirmed.
C16_CoachWindow ==
    lockPrimitive =>
        \A b \in Confirmed : \A k \in CoachIds :
            (Proper(b) /\ HoldsCoach(b, k)) =>
                \E a \in CoachAvailability :
                    /\ a.coach_id = k
                    /\ InsideWindow(a, bookings[b].start_ts, bookings[b].end_ts)

\* The step is create_booking by worker p answering 'court unavailable'
\* (lines 430-432): the court of the request is unknown or disabled
RejectsCourt(p) ==
    /\ MayStart(p)
    /\ clock' = clock + 1
    /\ req'[p] # NoRequest
    /\ req'[p].court_id \notin DOMAIN Courts \/ ~Courts[req'[p].court_id].enabled
    /\ resp'[p].status = "rejected"

\* C17: a create_booking call rejected because its court is unknown or
\* disabled writes no row at all (no User, Booking, allocation,
\* WaitlistEntry or AuditEvent) and takes no lock.
C17_NoSideEffects ==
    [][\A p \in Threads : RejectsCourt(p) => UNCHANGED <<tables, held>>]_vars

\* C18: create_booking never stores a request whose interval does not end
\* after it starts: every confirmed Booking and every WaitlistEntry refers to
\* an interval with start_ts < end_ts.
C18_ProperIntervals ==
    /\ \A b \in Confirmed : Proper(b)
    /\ \A i \in 1..Len(waitlist) :
          LET start_ts == waitlist[i].slot_hash[1][2]
              end_ts == waitlist[i].slot_hash[2][2]
          IN  start_ts < end_ts

\* Booking b has its 'confirmed' AuditEvent
Audited(b) ==
    \E i \in 1..Len(audit) :
        audit[i].booking_id = b /\ audit[i].event_type = "confirmed"

\* Booking b, being confirmed by worker p, has one allocation per court,
\* equipment line and coach of p's request
FullyAllocated(b, p) ==
    Len(AllocationsOf(b)) =
        1 + Len(req[p].equipment) + (IF req[p].coach_id # NoCoach THEN 1 ELSE 0)

\* C19: in every state of the store, a confirmed Booking has its court
\* allocation, one allocation per requested equipment line and coach, and
\* its 'confirmed' AuditEvent.
C19_AtomicConfirm ==
    /\ \A b \in Confirmed :
          /\ \E c \in CourtIds : HoldsCourt(b, c)
          /\ Audited(b)
    /\ \A p \in Threads :
          (pc[p] = "audit" /\ bid[p] \in Confirmed) => FullyAllocated(bid[p], p)

\* lines 229-237: the call notify_booking_change(date, booking_type,
\* booking_id) for Booking b has been made
Notified(b, booking_type) ==
    \E i \in 1..Len(notified) :
        notified[i] = [date |-> DayOfWeek(bookings[b].start_ts),
                       booking_type |-> booking_type, booking_id |-> b]

\* no handler is running: every call made so far has returned
AtRest == \A p \in Threads : pc[p] = "idle"

\* C20: once the handlers have returned, every Booking that create_booking
\* reported 'confirmed' has had its notify(date, 'confirmed', booking_id)
\* call, and every Booking that cancel_booking reported 'cancelled' has had
\* its notify(date, 'cancelled', booking_id) call.
C20_NotifierCalled ==
    AtRest =>
        \A b \in BookingIds :
            /\ Audited(b) => Notified(b, "confirmed")
            /\ bookings[b].status = "cancelled" => Notified(b, "cancelled")

\* worker p runs create_booking
Creating(p) == pc[p] \in {"lock", "query", "decide", "audit"}

\* worker p has returned from create_booking with one of its answers (a
\* failure of the store is a rejection of the generic kind) and holds no lock
Ended(p) ==
    /\ pc[p] = "idle"
    /\ resp[p].status \in {"confirmed", "waitlisted", "rejected", "error"}
    /\ held[p] = NoLock

Folded(q) ==
    {k \in 1..Len(q.rows) :
        rule_applies(q.rows[k].rule_json,
                     [type |-> Courts[q.court_id].type], q.start_ts, q.end_ts)}

\* f lists the rows of set app by descending priority, rows of equal
\* priority in the order the query returned them
ByPriority(f, app, rows) ==
    /\ \A k \in app : \E i \in DOMAIN f : f[i] = k
    /\ \A i, j \in DOMAIN f :
          i < j => \/ rows[f[i]].priority > rows[f[j]].priority
                   \/ /\ rows[f[i]].priority = rows[f[j]].priority
                      /\ f[i] < f[j]

\* C22: compute_price folds exactly the enabled rules that rule_applies
\* accepts, by descending priority and, for equal priority, in input order:
\* the rule_breakdown has one entry per such rule, each entry is the
\* running total after its rule, and the total is the last of them.
C22_FoldsApplicable ==
    \A n \in 1..Len(quotes) :
        LET q == quotes[n]
            bd == q.result.rule_breakdown
            app == Folded(q)
        IN  /\ \A k \in 1..Len(q.rows) : q.rows[k].enabled
            /\ Len(bd) = Cardinality(app)
            /\ \E f \in [1..Len(bd) -> app] :
                  /\ ByPriority(f, app, q.rows)
                  /\ \A i \in 1..Len(bd) :
                        /\ bd[i].name = q.rows[f[i]].name
                        /\ bd[i].after =
                              Modified(IF i = 1 THEN q.result.base
                                       ELSE bd[i - 1].after,
                                       q.rows[f[i]].rule_json)
            /\ q.result.total =
                  IF bd = <<>> THEN q.result.base ELSE bd[Len(bd)].after

\* a quote folded from two rules of equal priority that the query returned
\* in the order Flat, Peak, with a disabled rule in the table
C22_Witness ==
    /\ \E i \in 1..Len(pricing_rules) : ~pricing_rules[i].enabled
    /\ \E n \in 1..Len(quotes) :
          /\ Len(quotes[n].result.rule_breakdown) = 2
          /\ quotes[n].result.rule_breakdown[1].name = "Flat"
          /\ quotes[n].result.rule_breakdown[2].name = "Peak"

\* the rule is restricted to a court category other than the court's
OtherCategory(rule_json, court) ==
    /\ rule_json.applies_to \notin {"", "all"}
    /\ rule_json.applies_to # court.type

\* C23: a rule restricted to a court category other than the court's is
\* never folded into the price of that court, whatever day and time-of-day
\* clauses its match has or lacks.
C23_CategoryRestricts ==
    \A n \in 1..Len(quotes) :
        LET q == quotes[n]
            bd == q.result.rule_breakdown
        IN  \A k \in 1..Len(q.rows) :
                OtherCategory(q.rows[k].rule_json, Courts[q.court_id]) =>
                    \A i \in 1..Len(bd) : bd[i].name # q.rows[k].name

\* the match of the rule has a time window (both ends given)
Windowed(rule_json) == {"start", "end"} \subseteq rule_json.match.given

\* the instant t falls in the window of the rule
InWindow(rule_json, t) ==
    /\ rule_json.match.start <= TimeOfDay(t)
    /\ TimeOfDay(t) < rule_json.match.end

\* the day clause of the rule, if it has one, accepts the instant t
OnDay(rule_json, t) ==
    \/ "days" \notin rule_json.match.given
    \/ rule_json.match.days = {}
    \/ DayOfWeek(t) \in rule_json.match.days

\* the rule of row k was folded into the answer of quote q
FoldedIn(q, k) ==
    \E i \in 1..Len(q.result.rule_breakdown) :
        q.result.rule_breakdown[i].name = q.rows[k].name

\* C24: a rule with a time window is matched on the start instant alone: it
\* is not folded when start_ts falls outside the window, even if the
\* interval goes on into the window, and it is folded when start_ts falls
\* inside the window (its day and category clauses accepting), whatever
\* end_ts is.
C24_StartInstantOnly ==
    \A n \in 1..Len(quotes) :
        LET q == quotes[n]
        IN  \A k \in 1..Len(q.rows) :
                LET rule_json == q.rows[k].rule_json
                IN  Windowed(rule_json) =>
                       /\ ~InWindow(rule_json, q.start_ts) => ~FoldedIn(q, k)
                       /\ (/\ InWindow(rule_json, q.start_ts)
                           /\ OnDay(rule_json, q.start_ts)
                           /\ ~OtherCategory(rule_json, Courts[q.court_id]))
                          => FoldedIn(q, k)

\* an interval that starts before the peak hour and covers it is priced
\* without the peak rule
C24_Witness ==
    \E n \in 1..Len(quotes) :
        /\ quotes[n].start_ts = 0
        /\ quotes[n].end_ts = 2
        /\ \E k \in 1..Len(quotes[n].rows) :
              /\ quotes[n].rows[k].name = "Peak"
              /\ ~FoldedIn(quotes[n], k)

\* handler p begins a cancel_booking call for a stored Booking in this step
BeginsCancel(p) == pc[p] = "idle" /\ pc'[p] = "promote"

CancelsNothing(p) ==
    /\ MayStart(p)
    /\ clock' = clock + 1
    /\ resp'[p].status = "not_found"

\* C26: cancel_booking(id) writes the status of Booking id and nothing else
\* of any Booking, appends at most one AuditEvent, and leaves users,
\* allocations and waitlist entries as they are; for an id without a Booking
\* it answers not-found and changes nothing.
C26_CancelFrame ==
    [][\A p \in Threads :
          /\ BeginsCancel(p) =>
                /\ bid'[p] \in BookingIds
                /\ bookings' = [bookings EXCEPT ![bid'[p]].status = "cancelled"]
                /\ UNCHANGED <<users, allocations, waitlist, audit>>
          /\ Cancels(p) =>
                /\ UNCHANGED <<users, bookings, allocations, waitlist>>
                /\ \/ audit' = audit
                   \/ /\ Len(audit') = Len(audit) + 1
                      /\ SubSeq(audit', 1, Len(audit)) = audit
                      /\ audit'[Len(audit')].booking_id = bid[p]
                      /\ audit'[Len(audit')].event_type = "cancelled"
          /\ CancelsNothing(p) => UNCHANGED <<tables, held>>]_vars

\* a cancellation has reported a waitlisted user, whose entry is still
\* stored, while another Booking stays confirmed
C26_Witness ==
    \E p \in Threads :
        /\ resp[p].status = "cancelled"
        /\ resp[p].detail # <<>>
        /\ \E i \in EntriesFor(resp[p].id) :
              resp[p].detail = <<waitlist[i].user_id>>
        /\ Confirmed # {}

\* workers p and q are both between the lock statement and the end of
\* their decision, for the same interval and court
SideBySide(p, q) ==
    /\ p # q
    /\ pc[p] \in {"query", "decide"}
    /\ pc[q] \in {"query", "decide"}
    /\ RequestSlotHash(req[p]) = RequestSlotHash(req[q])

\* C27: when the lock statement fails, create_booking notes the warning
\* and goes on to the conflict check without holding a lock and without
\* answering; calls for the same interval and court run their checks one
\* after the other only where the lock primitive works.
C27_DegradesOpenly ==
    [][\A p \in Threads :
          /\ (~lockPrimitive /\ pc[p] = "lock" /\ pc'[p] # "lock") =>
                /\ pc'[p] = "query"
                /\ degraded'[p]
                /\ held'[p] = NoLock
                /\ resp'[p] = resp[p]
                /\ UNCHANGED tables
          /\ degraded[p] => held[p] = NoLock
          /\ lockPrimitive => \A q \in Threads : ~SideBySide(p, q)]_vars

\* two calls whose lock statement failed decide side by side on the same
\* interval and court
C27_Witness ==
    \E p \in Threads, q \in Threads :
        /\ SideBySide(p, q)
        /\ degraded[p]
        /\ degraded[q]
        /\ pc[p] = "decide"
        /\ pc[q] = "decide"
        /\ ~CourtConflict(req[p], overlapping[p])
        /\ ~CourtConflict(req[q], overlapping[q])

\* C28: when the calls run one at a time and every requested interval ends
\* after it starts, no two confirmed Bookings with overlapping intervals,
\* identical or not, hold the same court, on either store.
C28_SerialNoDoubleBooking ==
    serial =>
        \A a \in Confirmed, b \in Confirmed :
            (a # b /\ Proper(a) /\ Proper(b) /\ Overlap(a, b)) =>
                \A c \in CourtIds : ~(HoldsCourt(a, c) /\ HoldsCourt(b, c))

\* with calls one at a time, a request was waitlisted behind a confirmed
\* Booking of the same court whose interval overlaps the request's without
\* being the same
C28_Witness ==
    /\ serial
    /\ \E b \in Confirmed, i \in 1..Len(waitlist) :
          LET start_ts == waitlist[i].slot_hash[1][2]
              end_ts == waitlist[i].slot_hash[2][2]
          IN  /\ HoldsCourt(b, waitlist[i].slot_hash[3])
              /\ <<start_ts, end_ts>> # <<bookings[b].start_ts, bookings[b].end_ts>>
              /\ start_ts < bookings[b].end_ts
              /\ bookings[b].start_ts < end_ts
              /\ start_ts < end_ts

\* C29: cancel_booking(A) reports a user only from a WaitlistEntry stored
\* for exactly A's interval and court, and the fingerprint it recomputes
\* from the stored Booking is the one create_booking computed for the
\* request that became that Booking.
C29_ExactFingerprint ==
    [][\A p \in Threads :
          /\ (Cancels(p) /\ resp'[p].detail # <<>>) =>
                \E i \in 1..Len(waitlist) :
                    /\ audit'[Len(audit')].entry = i
                    /\ resp'[p].detail = <<waitlist[i].user_id>>
                    /\ waitlist[i].slot_hash[1][2] = bookings[bid[p]].start_ts
                    /\ waitlist[i].slot_hash[2][2] = bookings[bid[p]].end_ts
                    /\ HoldsCourt(bid[p], waitlist[i].slot_hash[3])
          /\ pc[p] = "audit" =>
                CancelSlotHash(bid[p]) = RequestSlotHash(req[p])]_vars

\* the rows with 'additive' and 'multiplicative' exchanged in every
\* percentage rule
Swapped(rows) ==
    [i \in DOMAIN rows |->
        IF rows[i].rule_json.modifier.type # "percentage" THEN rows[i]
        ELSE IF rows[i].rule_json.stack_behavior = "additive"
             THEN [rows[i] EXCEPT !.rule_json.stack_behavior = "multiplicative"]
        ELSE IF rows[i].rule_json.stack_behavior = "multiplicative"
             THEN [rows[i] EXCEPT !.rule_json.stack_behavior = "additive"]
        ELSE rows[i]]

\* the running totals of an answer, the base first
Totals(result) ==
    <<result.base>>
    \o [i \in DOMAIN result.rule_breakdown |-> result.rule_breakdown[i].after]

\* C30: an answer of compute_price keeps its running totals and its total
\* when 'additive' and 'multiplicative' are exchanged in its percentage
\* rules, and no rule lowers the running total it is applied to unless its
\* value is negative and its behaviour other than 'max'.
C30_StackingsAgree ==
    \A n \in 1..Len(quotes) :
        LET q == quotes[n]
            other == compute_priceFloat(Swapped(q.rows), Courts[q.court_id],
                                        q.start_ts, q.end_ts)
            bd == q.result.rule_breakdown
        IN  /\ Totals(other) = Totals(q.result)
            /\ other.total = q.result.total
            /\ \A i \in 1..Len(bd) :
                  (\E k \in 1..Len(q.rows) :
                      /\ q.rows[k].name = bd[i].name
                      /\ q.rows[k].rule_json.stack_behavior = "max") =>
                     ~FloatLess(bd[i].after, Totals(q.result)[i])

\* the whole-number amounts of the answers of simulate_pricing are the
\* floats the code computes for the same rows
ExactAmounts ==
    \A n \in 1..Len(quotes) :
        LET q == quotes[n]
            floats == compute_priceFloat(q.rows, Courts[q.court_id],
                                         q.start_ts, q.end_ts)
        IN  /\ floats.total = Float(q.result.total)
            /\ Len(floats.rule_breakdown) = Len(q.result.rule_breakdown)
            /\ \A i \in 1..Len(q.result.rule_breakdown) :
                  floats.rule_breakdown[i].after =
                      Float(q.result.rule_breakdown[i].after)

====
